---------------------------- MODULE Spec2Model ----------------------------
(***************************************************************************)
(* msg_noise: a seeded noise source (NoiseSource) that derives the seed of *)
(* every noise generator (Noise) it creates with hash_combine, and the     *)
(* shaping and query layer of the generators.                              *)
(*                                                                         *)
(* u32 values are pairs <<hi, lo>> of 16-bit limbs (value hi * 2^16 + lo), *)
(* so that every operation keeps the 32-bit width of the source.           *)
(***************************************************************************)
EXTENDS Integers, Sequences, FiniteSets, TLC

VARIABLES sources, lastSet, gens, born, out

vars == <<sources, lastSet, gens, born, out>>

----------------------------------------------------------------------------
(* u32 arithmetic *)

W16 == 65536

W8 == 256

U32(hi, lo) == <<hi, lo>>

IsU32(u) == /\ u \in Seq(0 .. W16 - 1)
            /\ Len(u) = 2

RECURSIVE XorN(_, _, _)
\* bitwise xor of two n-bit naturals
XorN(a, b, n) ==
    IF n = 0 THEN 0
    ELSE ((a + b) % 2) + 2 * XorN(a \div 2, b \div 2, n - 1)

\* a ^ b on u32
u32_xor(a, b) == U32(XorN(a[1], b[1], 16), XorN(a[2], b[2], 16))

\* a >> 16 on u32 (logical shift)
u32_shr16(a) == U32(0, a[1])

\* a.wrapping_mul(c): the low 32 bits of the product, by bytes
u32_wrapping_mul(a, c) ==
    LET a0 == a[2] % W8
        a1 == a[2] \div W8
        a2 == a[1] % W8
        a3 == a[1] \div W8
        c0 == c[2] % W8
        c1 == c[2] \div W8
        c2 == c[1] % W8
        c3 == c[1] \div W8
        t0 == a0 * c0
        t1 == a0 * c1 + a1 * c0 + (t0 \div W8)
        t2 == a0 * c2 + a1 * c1 + a2 * c0 + (t1 \div W8)
        t3 == a0 * c3 + a1 * c2 + a2 * c1 + a3 * c0 + (t2 \div W8)
    IN  U32((t3 % W8) * W8 + (t2 % W8), (t1 % W8) * W8 + (t0 % W8))

\* a.wrapping_add(b)
u32_wrapping_add(a, b) ==
    LET lo == a[2] + b[2]
    IN  U32((a[1] + b[1] + (lo \div W16)) % W16, lo % W16)

\* the multiplier 0x517c_c1b7 of hash_combine
HashMul == U32(20860, 49591)

\* hash_combine without its last step, h ^= h >> 16
hash_combine_noshift(a, b) == u32_wrapping_mul(u32_xor(a, b), HashMul)

\* fn hash_combine(a: u32, b: u32) -> u32
\* hash_combine multiplying a before b is mixed in
hash_combine_premixed(a, b) ==
    LET h1 == u32_wrapping_mul(a, HashMul)
        h2 == u32_xor(h1, b)
    IN  u32_xor(h2, u32_shr16(h2))

hash_combine(a, b) ==
    LET h1 == u32_xor(a, b)
        h2 == u32_wrapping_mul(h1, HashMul)
    IN  u32_xor(h2, u32_shr16(h2))

----------------------------------------------------------------------------
(* The reference mix of the specification, on 32-bit vectors (bit 1 is the *)
(* least significant): h = a xor b; h = h * 0x517CC1B7 mod 2^32;           *)
(* h = h xor (h >> 16).                                                    *)

RECURSIVE BitsOf(_, _)
BitsOf(n, k) == IF k = 0 THEN <<>> ELSE <<n % 2>> \o BitsOf(n \div 2, k - 1)

ToBits(u) == BitsOf(u[2], 16) \o BitsOf(u[1], 16)

RECURSIVE NatOf(_)
NatOf(bs) == IF bs = <<>> THEN 0 ELSE Head(bs) + 2 * NatOf(Tail(bs))

FromBits(bs) == U32(NatOf(SubSeq(bs, 17, 32)), NatOf(SubSeq(bs, 1, 16)))

BvXor(x, y) == [i \in 1 .. 32 |-> IF x[i] = y[i] THEN 0 ELSE 1]

BvShr(x, n) == [i \in 1 .. 32 |-> IF i + n <= 32 THEN x[i + n] ELSE 0]

BvShl(x, n) == [i \in 1 .. 32 |-> IF i - n >= 1 THEN x[i - n] ELSE 0]

RECURSIVE BvCarry(_, _, _)
\* the carry into bit i of x + y
BvCarry(x, y, i) ==
    IF i = 1 THEN 0
    ELSE (x[i - 1] + y[i - 1] + BvCarry(x, y, i - 1)) \div 2

\* x + y mod 2^32
BvAdd(x, y) == [i \in 1 .. 32 |-> (x[i] + y[i] + BvCarry(x, y, i)) % 2]

RECURSIVE BvColumn(_, _, _, _)
\* the number of pairs (i, k + 1 - i), 1 <= i <= n, with x[i] = 1 and c[k + 1 - i] = 1
BvColumn(x, c, k, n) ==
    IF n = 0 THEN 0
    ELSE x[n] * c[k + 1 - n] + BvColumn(x, c, k, n - 1)

RECURSIVE BvMulCarry(_, _, _)
\* the carry into bit k of the long multiplication x * c
BvMulCarry(x, c, k) ==
    IF k = 1 THEN 0
    ELSE (BvColumn(x, c, k - 1, k - 1) + BvMulCarry(x, c, k - 1)) \div 2

\* x * c mod 2^32, by long multiplication
BvMul(x, c) ==
    [k \in 1 .. 32 |-> (BvColumn(x, c, k, k) + BvMulCarry(x, c, k)) % 2]

RefMix(a, b) ==
    LET h1 == BvXor(ToBits(a), ToBits(b))
        h2 == BvMul(h1, ToBits(HashMul))
    IN  FromBits(BvXor(h2, BvShr(h2, 16)))

RefAdd(a, b) == FromBits(BvAdd(ToBits(a), ToBits(b)))

----------------------------------------------------------------------------
(* f64 arithmetic.  A finite value is a multiple of 1/Unit of magnitude at *)
(* most MaxFinite/Unit, held as Fin(n) for the value n/Unit; a result      *)
(* beyond that magnitude is an infinity, as an f64 result beyond f64::MAX  *)
(* is, and the infinities and NaN follow IEEE 754.  Results are rounded    *)
(* toward zero to the grid.                                                *)

Unit == 1000

MaxFinite == 1000000

Fin(n) == [k |-> "fin", v |-> n]

Inf(s) == [k |-> "inf", v |-> s]

NaN == [k |-> "nan", v |-> 0]

IsNaN(a) == a.k = "nan"

IsFinite(a) == a.k = "fin"

Abs(n) == IF n < 0 THEN -n ELSE n

\* the sign of a value; a zero counts as positive
Sgn(a) == IF a.v < 0 THEN -1 ELSE 1

Rounded(n) ==
    IF n > MaxFinite THEN Inf(1)
    ELSE IF n < -MaxFinite THEN Inf(-1)
    ELSE Fin(n)

FNeg(a) == IF a.k = "nan" THEN NaN ELSE [a EXCEPT !.v = -a.v]

\* a + b
FAdd(a, b) ==
    IF a.k = "nan" \/ b.k = "nan" THEN NaN
    ELSE IF a.k = "inf" /\ b.k = "inf" THEN (IF a.v = b.v THEN a ELSE NaN)
    ELSE IF a.k = "inf" THEN a
    ELSE IF b.k = "inf" THEN b
    ELSE Rounded(a.v + b.v)

\* a - b
FSub(a, b) == FAdd(a, FNeg(b))

\* |a| * |b| / Unit of two finite magnitudes, without a 32-bit overflow
MulMag(m, n) == (m \div Unit) * n + ((m % Unit) * n) \div Unit

\* a * b
FMul(a, b) ==
    IF a.k = "nan" \/ b.k = "nan" THEN NaN
    ELSE IF a.k = "inf" \/ b.k = "inf"
         THEN (IF a.v = 0 \/ b.v = 0 THEN NaN ELSE Inf(Sgn(a) * Sgn(b)))
    ELSE Rounded(Sgn(a) * Sgn(b) * MulMag(Abs(a.v), Abs(b.v)))

\* a / b
FDiv(a, b) ==
    IF a.k = "nan" \/ b.k = "nan" THEN NaN
    ELSE IF a.k = "inf" THEN (IF b.k = "inf" THEN NaN ELSE Inf(Sgn(a) * Sgn(b)))
    ELSE IF b.k = "inf" THEN Fin(0)
    ELSE IF b.v = 0 THEN (IF a.v = 0 THEN NaN ELSE Inf(Sgn(a)))
    ELSE Rounded(Sgn(a) * Sgn(b) * ((Abs(a.v) * Unit) \div Abs(b.v)))

\* a.abs()
FAbs(a) == IF a.k = "nan" THEN NaN ELSE [a EXCEPT !.v = Abs(a.v)]

\* a <= b; false when either is NaN
FLe(a, b) ==
    /\ a.k # "nan"
    /\ b.k # "nan"
    /\ \/ a = b
       \/ a.k = "inf" /\ a.v = -1
       \/ b.k = "inf" /\ b.v = 1
       \/ a.k = "fin" /\ b.k = "fin" /\ a.v <= b.v

----------------------------------------------------------------------------
(* struct Noise and its operations *)

\* const DEFAULT_NOISE_SCALE: f64 = 0.008
DEFAULT_NOISE_SCALE == Fin(8)

\* Noise::new(seed)
Noise_new(seed) ==
    [generator |-> seed, scale |-> DEFAULT_NOISE_SCALE, offset |-> Fin(0),
     range_min |-> Fin(0), range_max |-> Fin(Unit)]

\* from_base deriving its seed as NoiseSource::create does
from_base_mixed(base_seed, key) == Noise_new(hash_combine(base_seed, key))

\* Noise::from_base(base_seed, key)
from_base(base_seed, key) == Noise_new(u32_wrapping_add(base_seed, key))

with_scale(self, scale) == [self EXCEPT !.scale = scale]

\* with_range that also derives the scale from the width of the range
with_range_rescaling(self, min, max) ==
    [self EXCEPT !.range_min = min, !.range_max = max, !.scale = FSub(max, min)]

with_range(self, min, max) == [self EXCEPT !.range_min = min, !.range_max = max]

with_offset(self, offset) == [self EXCEPT !.offset = offset]

set_scale(self, scale) == [self EXCEPT !.scale = scale]

set_range(self, min, max) == [self EXCEPT !.range_min = min, !.range_max = max]

set_offset(self, offset) == [self EXCEPT !.offset = offset]

\* the offset added after the scaling
raw_point_scaled_first(self, x, y) ==
    <<FAdd(FMul(x, self.scale), self.offset),
      FAdd(FMul(y, self.scale), self.offset)>>

\* the point get_raw hands to the generator
raw_point(self, x, y) ==
    <<FMul(FAdd(x, self.offset), self.scale),
      FMul(FAdd(y, self.offset), self.scale)>>

\* the point get_raw_3d hands to the generator
raw_point_3d(self, x, y, z) ==
    <<FMul(FAdd(x, self.offset), self.scale),
      FMul(FAdd(y, self.offset), self.scale),
      FMul(FAdd(z, self.offset), self.scale)>>

\* One sample of the Perlin generator: the generator's seed, the point, and
\* the value the generator returns there.
Sample(self, pt, raw) == [seed |-> self.generator, pt |-> pt, raw |-> raw]

\* get_raw(x, y), the generator returning raw at the point: the sample taken
\* and the value returned
get_raw(self, x, y, raw) ==
    [samples |-> <<Sample(self, raw_point(self, x, y), raw)>>, value |-> raw]

get_raw_3d(self, x, y, z, raw) ==
    [samples |-> <<Sample(self, raw_point_3d(self, x, y, z), raw)>>,
     value |-> raw]

get_absolute(self, x, y, raw) ==
    LET r == get_raw(self, x, y, raw)
    IN  [r EXCEPT !.value = FAbs(r.value)]

get_normalized(self, x, y, raw) ==
    LET r == get_raw(self, x, y, raw)
    IN  [r EXCEPT !.value = FMul(FAdd(r.value, Fin(Unit)), Fin(Unit \div 2))]

get_normalized_3d(self, x, y, z, raw) ==
    LET r == get_raw_3d(self, x, y, z, raw)
    IN  [r EXCEPT !.value = FMul(FAdd(r.value, Fin(Unit)), Fin(Unit \div 2))]

\* one turn of the loop of get_fractal on the locals s, the generator
\* returning raw for the turn's sample
fractal_turn(self, x, y, s, persistence, lacunarity, raw) ==
    [value |-> FAdd(s.value, FMul(raw, s.amplitude)),
     max_value |-> FAdd(s.max_value, s.amplitude),
     amplitude |-> FMul(s.amplitude, persistence),
     frequency |-> FMul(s.frequency, lacunarity),
     samples |-> Append(s.samples,
                        Sample(self,
                               raw_point(self, FMul(x, s.frequency),
                                         FMul(y, s.frequency)),
                               raw))]

RECURSIVE fractal_loop(_, _, _, _, _, _, _)
\* the locals of get_fractal after n turns of its loop; raws[i] is what the
\* generator returns for the sample of turn i
fractal_loop(self, x, y, n, persistence, lacunarity, raws) ==
    IF n = 0
    THEN [value |-> Fin(0), amplitude |-> Fin(Unit), frequency |-> Fin(Unit),
          max_value |-> Fin(0), samples |-> <<>>]
    ELSE fractal_turn(self, x, y,
                      fractal_loop(self, x, y, n - 1, persistence, lacunarity,
                                   raws),
                      persistence, lacunarity, raws[n])

\* get_fractal: the samples taken, the locals the loop ends with, and the
\* value returned, value / max_value
fractal_result(s) ==
    [samples |-> s.samples,
     locals |-> [value |-> s.value, max_value |-> s.max_value,
                 amplitude |-> s.amplitude, frequency |-> s.frequency],
     value |-> FDiv(s.value, s.max_value)]

\* get_fractal with an octave count of 0 raised to 1
get_fractal_clamped(self, x, y, octaves, persistence, lacunarity, raws) ==
    IF octaves = 0
    THEN fractal_result(
             fractal_loop(self, x, y, 1, persistence, lacunarity, <<Fin(0)>>))
    ELSE fractal_result(
             fractal_loop(self, x, y, octaves, persistence, lacunarity, raws))

get_fractal(self, x, y, octaves, persistence, lacunarity, raws) ==
    fractal_result(
        fractal_loop(self, x, y, octaves, persistence, lacunarity, raws))

\* the tail of get_fractal_scaled on the result f of get_fractal
scaled_result(self, f) ==
    [f EXCEPT !.value =
        FAdd(self.range_min,
             FMul(FMul(FAdd(f.value, Fin(Unit)), Fin(Unit \div 2)),
                  FSub(self.range_max, self.range_min)))]

get_fractal_scaled(self, x, y, octaves, persistence, lacunarity, raws) ==
    scaled_result(self,
        get_fractal(self, x, y, octaves, persistence, lacunarity, raws))

----------------------------------------------------------------------------
(* struct NoiseSource and its operations *)

NoiseSource_new(s) == [seed |-> s]

seed(self) == self.seed

\* reseed that stores nothing
reseed_dropped(self, s) == self

\* reseed that mixes the new seed into the old one
reseed_mixed(self, s) == [self EXCEPT !.seed = hash_combine(self.seed, s)]

reseed(self, s) == [self EXCEPT !.seed = s]

\* create deriving from the seed and the number of generators made so far
create_counting(self, key) ==
    Noise_new(hash_combine(u32_wrapping_add(self.seed, U32(0, Len(gens))), key))

create(self, key) == Noise_new(hash_combine(self.seed, key))

\* create_salted combining the seed with the key first and the salt last
create_salted_left(self, key, salt) ==
    Noise_new(hash_combine(hash_combine(self.seed, key), salt))

\* create_salted deriving from the key in place of the combined value
create_salted_unsalted(self, key, salt) ==
    Noise_new(hash_combine(self.seed, key))

create_salted(self, key, salt) ==
    LET combined == hash_combine(key, salt)
        derived == hash_combine(self.seed, combined)
    IN  Noise_new(derived)

----------------------------------------------------------------------------
(* Input sets *)

\* seeds of the tests: 12345, 54321, 42, and the extremes
S12345 == U32(0, 12345)

S54321 == U32(0, 54321)

SMax == U32(65535, 65535)

KABCD == U32(0, 43981)

U32Samples ==
    { U32(0, 0), U32(0, 1), U32(0, 2), U32(0, 42), S12345, S54321, KABCD,
      U32(0, 65535), U32(1, 0), U32(21573, 21074), U32(32768, 0),
      U32(43690, 21845), U32(65535, 65534), SMax }

NoCall == [op |-> "none"]

SeedSet == {S12345, S54321}

\* seeds handed to Noise::new and Noise::from_base directly
RawSeedSet == {U32(0, 42)}

\* base seeds handed to Noise::from_base
BaseSet == {S12345, SMax}

KeySet == {KABCD, U32(0, 1)}

\* keys and salts handed to create_salted
SaltedKeySet == {KABCD}

SaltSet == {U32(0, 1), U32(0, 2)}

SourceIds == {1, 2}

\* 0.1
ScaleSet == {Fin(100)}

\* 100.0
OffsetSet == {Fin(100000)}

\* [50.0, 150.0]
RangeSet == {<<Fin(50000), Fin(150000)>>}

MaxGens == 2

----------------------------------------------------------------------------
(* The program: two noise sources, the generators made so far, and the     *)
(* value the last accessor call returned.  lastSet[i] is the argument of   *)
(* the latest NoiseSource::new or reseed of source i, and born[g] is the   *)
(* call that made generator g, with the seed its source held at the call.  *)

Init ==
    /\ \E f \in [SourceIds -> SeedSet] :
        /\ sources = [i \in SourceIds |-> NoiseSource_new(f[i])]
        /\ lastSet = f
    /\ gens = <<>>
    /\ born = <<>>
    /\ out = NoCall

Seed(i) ==
    /\ out' = [op |-> "seed", source |-> i, value |-> seed(sources[i])]
    /\ UNCHANGED <<sources, lastSet, gens, born>>

Reseed(i, s) ==
    /\ sources' = [sources EXCEPT ![i] = reseed(@, s)]
    /\ lastSet' = [lastSet EXCEPT ![i] = s]
    /\ out' = NoCall
    /\ UNCHANGED <<gens, born>>

Create(i, key) ==
    /\ Len(gens) < MaxGens
    /\ gens' = Append(gens, create(sources[i], key))
    /\ born' = Append(born, [op |-> "create", source |-> i,
                             base |-> sources[i].seed, key |-> key])
    /\ out' = NoCall
    /\ UNCHANGED <<sources, lastSet>>

CreateSalted(i, key, salt) ==
    /\ Len(gens) < MaxGens
    /\ gens' = Append(gens, create_salted(sources[i], key, salt))
    /\ born' = Append(born, [op |-> "create_salted", source |-> i,
                             base |-> sources[i].seed, key |-> key,
                             salt |-> salt])
    /\ out' = NoCall
    /\ UNCHANGED <<sources, lastSet>>

New(s) ==
    /\ Len(gens) < MaxGens
    /\ gens' = Append(gens, Noise_new(s))
    /\ born' = Append(born, [op |-> "new", seed |-> s])
    /\ out' = NoCall
    /\ UNCHANGED <<sources, lastSet>>

FromBase(base_seed, key) ==
    /\ Len(gens) < MaxGens
    /\ gens' = Append(gens, from_base(base_seed, key))
    /\ born' = Append(born, [op |-> "from_base", base |-> base_seed,
                             key |-> key])
    /\ out' = NoCall
    /\ UNCHANGED <<sources, lastSet>>

WithScale(g, scale) ==
    /\ gens' = [gens EXCEPT ![g] = with_scale(@, scale)]
    /\ out' = NoCall
    /\ UNCHANGED <<sources, lastSet, born>>

WithRange(g, min, max) ==
    /\ gens' = [gens EXCEPT ![g] = with_range(@, min, max)]
    /\ out' = NoCall
    /\ UNCHANGED <<sources, lastSet, born>>

WithOffset(g, offset) ==
    /\ gens' = [gens EXCEPT ![g] = with_offset(@, offset)]
    /\ out' = NoCall
    /\ UNCHANGED <<sources, lastSet, born>>

SetScale(g, scale) ==
    /\ gens' = [gens EXCEPT ![g] = set_scale(@, scale)]
    /\ out' = NoCall
    /\ UNCHANGED <<sources, lastSet, born>>

SetRange(g, min, max) ==
    /\ gens' = [gens EXCEPT ![g] = set_range(@, min, max)]
    /\ out' = NoCall
    /\ UNCHANGED <<sources, lastSet, born>>

SetOffset(g, offset) ==
    /\ gens' = [gens EXCEPT ![g] = set_offset(@, offset)]
    /\ out' = NoCall
    /\ UNCHANGED <<sources, lastSet, born>>

Shape ==
    \E g \in 1 .. Len(gens) :
        \/ \E scale \in ScaleSet \cup {DEFAULT_NOISE_SCALE} : WithScale(g, scale)
        \/ \E r \in RangeSet \cup {<<Fin(0), Fin(Unit)>>} : WithRange(g, r[1], r[2])
        \/ \E offset \in OffsetSet \cup {Fin(0)} : WithOffset(g, offset)
        \/ \E scale \in ScaleSet \cup {DEFAULT_NOISE_SCALE} : SetScale(g, scale)
        \/ \E r \in RangeSet \cup {<<Fin(0), Fin(Unit)>>} : SetRange(g, r[1], r[2])
        \/ \E offset \in OffsetSet \cup {Fin(0)} : SetOffset(g, offset)

Next ==
    \/ \E i \in SourceIds : Seed(i)
    \/ \E i \in SourceIds, s \in SeedSet : Reseed(i, s)
    \/ \E i \in SourceIds, key \in KeySet : Create(i, key)
    \/ \E i \in SourceIds, key \in SaltedKeySet, salt \in SaltSet : CreateSalted(i, key, salt)
    \/ \E s \in RawSeedSet : New(s)
    \/ \E base_seed \in BaseSet, key \in KeySet : FromBase(base_seed, key)
    \/ Shape

Spec == Init /\ [][Next]_vars

----------------------------------------------------------------------------
(* Properties of the noise source and of the construction of generators *)

\* a generator with the default shaping: scale 0.008, offset 0, range [0, 1]
DefaultShaped(s) ==
    [generator |-> s, scale |-> Fin(8), offset |-> Fin(0),
     range_min |-> Fin(0), range_max |-> Fin(1000)]

\* the step adds a generator
Creates == Len(gens') = Len(gens) + 1

NewGen == gens'[Len(gens')]

NewBorn == born'[Len(born')]

\* C2: create(K) on a source whose seed is S returns the default-shaped
\* generator of seed hash_combine(S, K), and create_salted(K, salt) the one of
\* seed hash_combine(S, hash_combine(K, salt)).
C2_CreateSeeds ==
    [][Creates =>
        /\ NewBorn.op = "create" =>
            /\ NewBorn.base = sources[NewBorn.source].seed
            /\ NewGen = DefaultShaped(hash_combine(NewBorn.base, NewBorn.key))
        /\ NewBorn.op = "create_salted" =>
            /\ NewBorn.base = sources[NewBorn.source].seed
            /\ NewGen = DefaultShaped(
                   hash_combine(NewBorn.base,
                                hash_combine(NewBorn.key, NewBorn.salt)))]_vars

\* create(0xABCD) on a source of seed 12345 made the generator of seed
\* 0x34325b5e, and create_salted(0xABCD, 1) on it the one of seed 0x0da2d1ec
C2_Witness ==
    /\ Len(gens) = 2
    /\ born[1] = [op |-> "create", source |-> 1, base |-> S12345, key |-> KABCD]
    /\ gens[1] = DefaultShaped(U32(13362, 23390))
    /\ born[2] = [op |-> "create_salted", source |-> 1, base |-> S12345,
                  key |-> KABCD, salt |-> U32(0, 1)]
    /\ gens[2] = DefaultShaped(U32(3490, 53740))

\* C3: a reseed leaves every generator as it is, a creation leaves the
\* generators made before it as they are, and create / create_salted on
\* source i derive what a fresh NoiseSource of the seed last given to source i
\* (by reseed, or by new) derives.
C3_ReseedAffectsLaterCreatesOnly ==
    [][/\ sources' # sources => gens' = gens /\ born' = born
       /\ Creates =>
           /\ SubSeq(gens', 1, Len(gens)) = gens
           /\ \A i \in SourceIds :
               /\ \A key \in KeySet :
                   Create(i, key) =>
                       NewGen = create(NoiseSource_new(lastSet[i]), key)
               /\ \A key \in SaltedKeySet, salt \in SaltSet :
                   CreateSalted(i, key, salt) =>
                       NewGen = create_salted(NoiseSource_new(lastSet[i]), key,
                                              salt)]_vars

\* source 1 made a generator while its seed was 12345, the generator was
\* reshaped, and source 1 made another with the same key when its seed was 54321
C3_Witness ==
    /\ Len(gens) = 2
    /\ born[1] = [op |-> "create", source |-> 1, base |-> S12345, key |-> KABCD]
    /\ born[2] = [op |-> "create", source |-> 1, base |-> S54321, key |-> KABCD]
    /\ gens[1] = [DefaultShaped(U32(13362, 23390)) EXCEPT !.offset = Fin(100000)]
    /\ gens[2] = DefaultShaped(U32(6888, 25548))

\* C4: the seed of every source, as seed() returns it, is the argument of the
\* latest reseed of the source, or of new when it was never reseeded.
C4_SeedIsLastSet ==
    /\ \A i \in SourceIds : seed(sources[i]) = lastSet[i]
    /\ out.op = "seed" => out.value = lastSet[out.source]

\* seed() returned 54321 on a source after generators were made and reshaped
C4_Witness ==
    /\ out.op = "seed"
    /\ out.value = S54321
    /\ Len(gens) = 2
    /\ born[1].op = "create"
    /\ born[2].op = "create_salted"
    /\ gens[1].scale # DEFAULT_NOISE_SCALE
    /\ born[1].source = out.source
    /\ born[1].base = S12345

\* the same construction call on a source of the same seed
SameCall(b, c) ==
    /\ b.op = c.op
    /\ b.op \in {"create", "create_salted"}
    /\ b.base = c.base
    /\ b.key = c.key
    /\ b.op = "create_salted" => b.salt = c.salt

C6_Sensitivity ==
    \A i \in 1 .. Len(gens), j \in 1 .. Len(gens) :
        /\ (/\ born[i].op = "create"
            /\ born[j].op = "create"
            /\ born[i].key = born[j].key
            /\ born[i].base # born[j].base) =>
                gens[i].generator # gens[j].generator
        /\ (/\ born[i].op = "create"
            /\ born[j].op = "create"
            /\ born[i].base = born[j].base
            /\ born[i].key # born[j].key) =>
                gens[i].generator # gens[j].generator
        /\ (/\ born[i].op = "create_salted"
            /\ born[j].op = "create_salted"
            /\ born[i].base = born[j].base
            /\ born[i].key = born[j].key
            /\ born[i].salt # born[j].salt) =>
                gens[i].generator # gens[j].generator

\* one source made generators with create_salted(0xABCD, 1) and
\* create_salted(0xABCD, 2)
C6_Witness ==
    /\ Len(gens) = 2
    /\ born[1].op = "create_salted"
    /\ born[2].op = "create_salted"
    /\ born[1].source = born[2].source
    /\ born[1].base = born[2].base
    /\ born[1].salt = U32(0, 1)
    /\ born[2].salt = U32(0, 2)

\* C10: from_base(base, key) returns the default-shaped generator of seed
\* (base + key) mod 2^32.
C10_FromBaseAdds ==
    [][(Creates /\ NewBorn.op = "from_base") =>
        NewGen = DefaultShaped(RefAdd(NewBorn.base, NewBorn.key))]_vars

\* from_base(12345, 0xABCD) has seed 12345 + 0xABCD = 56326, and create(0xABCD)
\* on a source of seed 12345 has another, 0x34325b5e
C10_Witness ==
    /\ Len(gens) = 2
    /\ born[1] = [op |-> "from_base", base |-> S12345, key |-> KABCD]
    /\ gens[1].generator = U32(0, 56326)
    /\ born[2].op = "create"
    /\ born[2].base = S12345
    /\ born[2].key = KABCD
    /\ gens[2].generator = U32(13362, 23390)

----------------------------------------------------------------------------
(* One generator, reshaped and queried.  A query leaves its call and what  *)
(* it returns in out until the caller takes it.  The Perlin generator is   *)
(* outside this crate: each value it returns is drawn from RawSet.         *)

\* 0.0, 10.0, -20.0
CoordSet == {Fin(0), Fin(10000), Fin(-20000)}

\* -1.0, 0.0, 1.0
RawSet == {Fin(-1000), Fin(0), Fin(1000)}

\* 0.0, 0.5, 2.0, 100.0, -1.0
PersistenceSet == {Fin(0), Fin(500), Fin(2000), Fin(100000), Fin(-1000)}

\* 2.0
LacunaritySet == {Fin(2000)}

MaxOctaves == 3

InitQuery ==
    /\ sources = [i \in SourceIds |-> NoiseSource_new(S12345)]
    /\ lastSet = [i \in SourceIds |-> S12345]
    /\ \E s \in RawSeedSet :
        /\ gens = <<Noise_new(s)>>
        /\ born = <<[op |-> "new", seed |-> s]>>
    /\ out = NoCall

Take ==
    /\ out # NoCall
    /\ out' = NoCall
    /\ UNCHANGED <<sources, lastSet, gens, born>>

GetRaw(g, x, y, raw) ==
    /\ out = NoCall
    /\ out' = [op |-> "get_raw", g |-> g, self |-> gens[g], x |-> x, y |-> y,
               ret |-> get_raw(gens[g], x, y, raw)]
    /\ UNCHANGED <<sources, lastSet, gens, born>>

GetRaw3d(g, x, y, z, raw) ==
    /\ out = NoCall
    /\ out' = [op |-> "get_raw_3d", g |-> g, self |-> gens[g], x |-> x, y |-> y,
               z |-> z, ret |-> get_raw_3d(gens[g], x, y, z, raw)]
    /\ UNCHANGED <<sources, lastSet, gens, born>>

GetAbsolute(g, x, y, raw) ==
    /\ out = NoCall
    /\ out' = [op |-> "get_absolute", g |-> g, self |-> gens[g], x |-> x,
               y |-> y, ret |-> get_absolute(gens[g], x, y, raw)]
    /\ UNCHANGED <<sources, lastSet, gens, born>>

GetNormalized(g, x, y, raw) ==
    /\ out = NoCall
    /\ out' = [op |-> "get_normalized", g |-> g, self |-> gens[g], x |-> x,
               y |-> y, ret |-> get_normalized(gens[g], x, y, raw)]
    /\ UNCHANGED <<sources, lastSet, gens, born>>

GetNormalized3d(g, x, y, z, raw) ==
    /\ out = NoCall
    /\ out' = [op |-> "get_normalized_3d", g |-> g, self |-> gens[g], x |-> x,
               y |-> y, z |-> z,
               ret |-> get_normalized_3d(gens[g], x, y, z, raw)]
    /\ UNCHANGED <<sources, lastSet, gens, born>>

GetFractal(g, x, y, octaves, persistence, lacunarity, raws) ==
    /\ out = NoCall
    /\ out' = [op |-> "get_fractal", g |-> g, self |-> gens[g], x |-> x,
               y |-> y, octaves |-> octaves, persistence |-> persistence,
               lacunarity |-> lacunarity,
               ret |-> get_fractal(gens[g], x, y, octaves, persistence,
                                   lacunarity, raws)]
    /\ UNCHANGED <<sources, lastSet, gens, born>>

GetFractalScaled(g, x, y, octaves, persistence, lacunarity, raws) ==
    /\ out = NoCall
    /\ out' = [op |-> "get_fractal_scaled", g |-> g, self |-> gens[g],
               x |-> x, y |-> y, octaves |-> octaves,
               persistence |-> persistence, lacunarity |-> lacunarity,
               ret |-> get_fractal_scaled(gens[g], x, y, octaves, persistence,
                                          lacunarity, raws)]
    /\ UNCHANGED <<sources, lastSet, gens, born>>

Query2d ==
    /\ out = NoCall
    /\ \E g \in 1 .. Len(gens), x \in CoordSet, y \in CoordSet, raw \in RawSet :
        \/ GetRaw(g, x, y, raw)
        \/ GetAbsolute(g, x, y, raw)
        \/ GetNormalized(g, x, y, raw)

Query3d ==
    /\ out = NoCall
    /\ \E g \in 1 .. Len(gens), x \in CoordSet, y \in CoordSet, z \in CoordSet,
       raw \in RawSet :
        \/ GetRaw3d(g, x, y, z, raw)
        \/ GetNormalized3d(g, x, y, z, raw)

QueryFractal ==
    /\ out = NoCall
    /\ \E g \in 1 .. Len(gens), x \in CoordSet, y \in CoordSet,
       octaves \in 0 .. MaxOctaves, persistence \in PersistenceSet,
       lacunarity \in LacunaritySet :
        \E raws \in [1 .. octaves -> RawSet] :
            \/ GetFractal(g, x, y, octaves, persistence, lacunarity, raws)
            \/ GetFractalScaled(g, x, y, octaves, persistence, lacunarity, raws)

NextQuery ==
    \/ Shape
    \/ Query2d
    \/ Query3d
    \/ QueryFractal
    \/ Take

SpecQuery == InitQuery /\ [][NextQuery]_vars

----------------------------------------------------------------------------
(* Properties of the queries *)

FractalOps == {"get_fractal", "get_fractal_scaled"}

\* every value the generator returned to the call lies in [-1, 1]
RawsNominal ==
    \A k \in 1 .. Len(out.ret.samples) :
        /\ FLe(Fin(-1000), out.ret.samples[k].raw)
        /\ FLe(out.ret.samples[k].raw, Fin(1000))

\* C7: get_fractal_scaled with octaves >= 1 and persistence >= 0, on a
\* generator whose range has range_min <= range_max, returns a value in
\* [range_min, range_max] when every raw sample lies in [-1, 1].
C7_FractalScaledInRange ==
    (/\ out.op = "get_fractal_scaled"
     /\ out.octaves >= 1
     /\ FLe(Fin(0), out.persistence)
     /\ FLe(out.self.range_min, out.self.range_max)
     /\ RawsNominal) =>
        /\ FLe(out.self.range_min, out.ret.value)
        /\ FLe(out.ret.value, out.self.range_max)

\* C8: get_fractal and get_fractal_scaled with octaves = 0 take no sample,
\* divide a value of 0 by a max_value of 0 and return the NaN of 0/0, and
\* leave the generator as it was.
C8_ZeroOctaves ==
    (out.op \in FractalOps /\ out.octaves = 0) =>
        /\ out.ret.samples = <<>>
        /\ out.ret.locals.value = Fin(0)
        /\ out.ret.locals.max_value = Fin(0)
        /\ IsNaN(out.ret.value)
        /\ gens[out.g] = out.self

\* get_fractal_scaled(10, 0, 0, 0.5, 2.0) returned on a generator of range
\* [50, 150]
C8_Witness ==
    /\ out.op = "get_fractal_scaled"
    /\ out.octaves = 0
    /\ out.x = Fin(10000)
    /\ out.persistence = Fin(500)
    /\ out.self.range_min = Fin(50000)
    /\ out.self.range_max = Fin(150000)

\* C9: get_raw, get_absolute and get_normalized at (x, y) on a generator of
\* offset d sample the generator at the point that the same generator with
\* offset 0 samples at (x + d, y + d), which is ((x + d) * scale,
\* (y + d) * scale).
C9_OffsetEquivalence ==
    out.op \in {"get_raw", "get_absolute", "get_normalized"} =>
        LET d == out.self.offset
            zero == with_offset(out.self, Fin(0))
            sample == out.ret.samples[1]
        IN  /\ Len(out.ret.samples) = 1
            /\ sample.seed = zero.generator
            /\ sample.pt = raw_point(zero, FAdd(out.x, d), FAdd(out.y, d))
            /\ sample.pt = <<FMul(FAdd(out.x, d), out.self.scale),
                             FMul(FAdd(out.y, d), out.self.scale)>>

\* get_normalized(10, -20) on a generator of offset 100 and scale 0.1
\* sampled the point (11, 8)
C9_Witness ==
    /\ out.op = "get_normalized"
    /\ out.self.offset = Fin(100000)
    /\ out.self.scale = Fin(100)
    /\ out.x = Fin(10000)
    /\ out.y = Fin(-20000)
    /\ out.ret.samples[1].pt = <<Fin(11000), Fin(8000)>>

\* the call recorded in o, made again on the generator self2 with the
\* generator returning the same value
Requery(o, self2) ==
    LET raw == o.ret.samples[1].raw
    IN  CASE o.op = "get_raw" -> get_raw(self2, o.x, o.y, raw)
          [] o.op = "get_absolute" -> get_absolute(self2, o.x, o.y, raw)
          [] o.op = "get_normalized" -> get_normalized(self2, o.x, o.y, raw)

\* after the step generator g holds scale, offset and range as given, and
\* its seed is as before the step
Reshaped(g, scale, offset, min, max) ==
    /\ Len(gens') = Len(gens)
    /\ gens'[g].generator = gens[g].generator
    /\ gens'[g].scale = scale
    /\ gens'[g].offset = offset
    /\ gens'[g].range_min = min
    /\ gens'[g].range_max = max

\* C11: with_scale / set_scale change only the scale of their generator,
\* with_offset / set_offset only its offset, with_range / set_range only its
\* range_min and range_max; the builder and the setter with the same argument
\* take the same step; and get_raw, get_absolute and get_normalized take the
\* same sample and return the same value on the generator with any other
\* range.
C11_ShapingFrame ==
    [][/\ out' = NoCall =>
           \A g \in 1 .. Len(gens) :
               LET n == gens[g]
               IN  /\ \A scale \in ScaleSet \cup {DEFAULT_NOISE_SCALE} :
                       /\ WithScale(g, scale) <=> SetScale(g, scale)
                       /\ WithScale(g, scale) =>
                              Reshaped(g, scale, n.offset, n.range_min,
                                       n.range_max)
                   /\ \A offset \in OffsetSet \cup {Fin(0)} :
                       /\ WithOffset(g, offset) <=> SetOffset(g, offset)
                       /\ WithOffset(g, offset) =>
                              Reshaped(g, n.scale, offset, n.range_min,
                                       n.range_max)
                   /\ \A r \in RangeSet \cup {<<Fin(0), Fin(Unit)>>} :
                       /\ WithRange(g, r[1], r[2]) <=> SetRange(g, r[1], r[2])
                       /\ WithRange(g, r[1], r[2]) =>
                              Reshaped(g, n.scale, n.offset, r[1], r[2])
       /\ out'.op \in {"get_raw", "get_absolute", "get_normalized"} =>
           \A r \in RangeSet \cup {<<Fin(0), Fin(Unit)>>} :
               /\ Requery(out', with_range(out'.self, r[1], r[2])) = out'.ret
               /\ Requery(out', set_range(out'.self, r[1], r[2])) = out'.ret]_vars

\* a generator whose scale, offset and range were all changed answered
\* get_normalized(10, -20)
C11_Witness ==
    /\ out.op = "get_normalized"
    /\ out.x = Fin(10000)
    /\ out.y = Fin(-20000)
    /\ out.self = [generator |-> U32(0, 42), scale |-> Fin(100),
                   offset |-> Fin(100000), range_min |-> Fin(50000),
                   range_max |-> Fin(150000)]
    /\ gens[out.g] = out.self
    /\ out.ret.value = Fin(1000)

\* C12: get_fractal and get_fractal_scaled with octaves >= 1 divide by a sum
\* of amplitudes that is not zero, whatever persistence and lacunarity are.
C12_AmplitudeSumNonzero ==
    (out.op \in FractalOps /\ out.octaves >= 1) =>
        out.ret.locals.max_value # Fin(0)

----------------------------------------------------------------------------
(* hash_combine applied to sampled pairs *)

InitHash ==
    /\ sources = <<>>
    /\ lastSet = <<>>
    /\ gens = <<>>
    /\ born = <<>>
    /\ out = NoCall

HashCall ==
    \E a \in U32Samples, b \in U32Samples :
        /\ out' = [op |-> "hash_combine", a |-> a, b |-> b,
                   value |-> hash_combine(a, b)]
        /\ UNCHANGED <<sources, lastSet, gens, born>>

SpecHash == InitHash /\ [][HashCall]_vars

\* C1: hash_combine(a, b) is the reference mix of a and b, bit for bit, and
\* is a u32 for every pair of inputs.
C1_HashIsReferenceMix ==
    out.op = "hash_combine" =>
        /\ out.value = RefMix(out.a, out.b)
        /\ IsU32(out.value)

\* hash_combine(12345, 0xABCD) = 0x34325b5e and
\* hash_combine(0xFFFFFFFF, 1) = 0x5d062194 are reached
C1_Witness ==
    /\ out.op = "hash_combine"
    /\ \/ out.a = S12345 /\ out.b = KABCD /\ out.value = U32(13362, 23390)
       \/ out.a = SMax /\ out.b = U32(0, 1) /\ out.value = U32(23814, 8596)

\* C13: hash_combine(a, b) is hash_combine(c, d) for every c, d with
\* c xor d = a xor b, (b, a) among them; so a source of seed a asked for key b
\* and a source of seed b asked for key a derive the same seed, and
\* create_salted(a, b) and create_salted(b, a) on one source do.
C13_HashDependsOnXor ==
    out.op = "hash_combine" =>
        /\ \A c \in U32Samples, d \in U32Samples :
               u32_xor(c, d) = u32_xor(out.a, out.b) =>
                   hash_combine(c, d) = out.value
        /\ create(NoiseSource_new(out.a), out.b).generator
               = create(NoiseSource_new(out.b), out.a).generator
        /\ \A s \in SeedSet :
               create_salted(NoiseSource_new(s), out.a, out.b).generator
                   = create_salted(NoiseSource_new(s), out.b, out.a).generator

\* hash_combine(0xFFFFFFFE, 0xFFFFFFFF) returned 0x517c90cb, which is
\* hash_combine(0, 1)
C13_Witness ==
    /\ out.op = "hash_combine"
    /\ out.a = U32(65535, 65534)
    /\ out.b = SMax
    /\ out.value = U32(20860, 37067)
    /\ u32_xor(out.a, out.b) = u32_xor(U32(0, 0), U32(0, 1))

=============================================================================
